---- MODULE Spec2Model ----
(***************************************************************************)
(* Marker-and-viewport reconciliation and the location CRUD workflow of    *)
(* merkel-vision-react: the MapsService singleton (two source variants),   *)
(* the useGoogleMaps hook instances, the LocationsProvider snapshot, the   *)
(* LocationForm / Dashboard dialog and the LocationList card actions.       *)
(* Coordinates are modelled in whole degrees.                               *)
(***************************************************************************)
EXTENDS Integers, Sequences, FiniteSets, TLC

VARIABLES
    variant,            \* which MapsService source is built: "basic" | "enhanced"
    advancedAvailable,  \* window.google.maps.marker.AdvancedMarkerElement is a function
    ms,                 \* the MapsService singleton's fields
    lastCall,           \* outcome of the last MapsService call (return value / throw)
    events,             \* the search widget's selection events and their listener runs
    clicked,            \* what the last marker click handed to the marker-click handler
    user,               \* AuthProvider: the signed-in user's uid, or NoUser
    remote,             \* the document store's locations collection, by id
    nextId,             \* the next document id the store will assign
    clock,              \* the time `new Date()` last returned to a store write
    locations,          \* LocationsProvider: the in-memory snapshot
    locLoading,         \* LocationsProvider: loading
    locError,           \* LocationsProvider: error (NoError or a message)
    inflight,           \* awaited firebaseService calls whose response is under way
    lastResp,           \* how the last awaited call ended for its caller
    selectedLocation,   \* LocationsProvider: id of the selected location, 0 if none
    api,                \* the maps script: "idle", "loading", "loaded", "failed"
    hook,               \* the state of each component's useGoogleMaps() instance
    initTimers,         \* pending 500 ms timers of MapComponent's init effect
    crashed,            \* an effect threw and React unmounted the tree
    dialog,             \* Dashboard's form flags and LocationForm's state
    view                \* the retry chain of the last card "view" action

surfaceVars == <<variant, advancedAvailable, ms, lastCall, events, clicked>>
storeVars ==
    <<user, remote, nextId, clock, locations, locLoading, locError, inflight, lastResp>>
appVars == <<selectedLocation, api, hook, initTimers, crashed, dialog, view>>
vars == <<surfaceVars, storeVars, appVars>>

\* ---------------------------------------------------------------- bounds

\* Location ids the store hands out: 1..MaxLocs.
MaxLocs == 2
\* Cap on temporary markers simultaneously attached to the map surface.
MaxTemps == 2
\* Cap on google.maps.Map instances constructed on one surface.
MaxMaps == 2
\* Cap on firebaseService calls awaited at the same time.
MaxInflight == 2
\* Cap on the clock: the number of store writes that get a timestamp.
MaxClock == 2
\* Cap on selection events of the search widget.
MaxEvents == 2
\* Cap on handlers registered with setPlaceSelectedHandler.
MaxHandlers == 2

Ids == 1..MaxLocs

\* ------------------------------------------------------- program constants

defaultLat == 39
defaultLng == -98
defaultZoom == 4
searchZoom == 15

\* ------------------------------------------------------------ JS values

\* A JavaScript value in a coordinate slot: a finite number, NaN, a
\* zero-argument accessor function returning v, a numeric string, a
\* non-numeric string, or the empty string.
Num(n) == [t |-> "num", v |-> n]
NaN == [t |-> "nan", v |-> 0]
Fn(n) == [t |-> "fn", v |-> n]
Str(n) == [t |-> "str", v |-> n]
Text == [t |-> "text", v |-> 0]
Empty == [t |-> "empty", v |-> 0]

\* typeof x === 'number'
typeofNumber(x) == x.t \in {"num", "nan"}

\* parseFloat(x): a number stays, a numeric string parses, all else is NaN.
parseFloat(x) ==
    CASE x.t = "num" -> x
      [] x.t = "str" -> Num(x.v)
      [] OTHER -> NaN

\* isNaN(x): Number(x) is NaN.
isNaN(x) ==
    CASE x.t = "num" -> FALSE
      [] x.t = "str" -> FALSE
      [] x.t = "empty" -> FALSE
      [] OTHER -> TRUE

\* JavaScript truthiness of a coordinate / zoom value.
truthy(x) ==
    CASE x.t = "num" -> x.v # 0
      [] x.t = "nan" -> FALSE
      [] x.t = "empty" -> FALSE
      [] OTHER -> TRUE

\* The zoom argument of centerMap: null (defaulted) or a number.
NoZoom == [given |-> FALSE, z |-> 0]
Zoom(z) == [given |-> TRUE, z |-> z]

\* --------------------------------------------------- provider (google.maps)

\* The provider takes a LatLngLiteral only if both members are finite numbers;
\* anything else raises InvalidValueError.
ProviderAccepts(lat, lng) == lat.t = "num" /\ lng.t = "num"

\* The provider turns a literal into a LatLng: latitude clamped to [-90, 90],
\* longitude wrapped into [-180, 180].
ProviderLatLng(lat, lng) ==
    [lat |-> IF lat.v > 90 THEN 90 ELSE IF lat.v < -90 THEN -90 ELSE lat.v,
     lng |-> IF lng.v > 180 \/ lng.v < -180
             THEN ((lng.v + 180) % 360) - 180
             ELSE lng.v]

NoMap == [attached |-> FALSE, center |-> [lat |-> 0, lng |-> 0], zoom |-> 0]

\* The object a marker's click listener closed over; none for a marker
\* without such a listener.
NoLocation == [id |-> 0]

NoMarker ==
    [kind |-> "none", pos |-> [lat |-> 0, lng |-> 0], onMap |-> FALSE,
     hasGetPosition |-> FALSE, hasSetPosition |-> FALSE, location |-> NoLocation]

\* new google.maps.Marker({position, map, ...}): getPosition / setPosition /
\* setMap are native methods.
LegacyMarker(lat, lng) ==
    [kind |-> "legacy", pos |-> ProviderLatLng(lat, lng), onMap |-> TRUE,
     hasGetPosition |-> TRUE, hasSetPosition |-> TRUE, location |-> NoLocation]

\* new google.maps.marker.AdvancedMarkerElement({position, map, ...}): exposes
\* the properties position and map and none of the legacy methods; compat says
\* which compatibility methods the caller patches on.
AdvancedMarker(lat, lng, compatGet, compatSet) ==
    [kind |-> "advanced", pos |-> ProviderLatLng(lat, lng), onMap |-> TRUE,
     hasGetPosition |-> compatGet, hasSetPosition |-> compatSet,
     location |-> NoLocation]

\* marker.addListener('click', () => { if (this.onMarkerClick)
\* this.onMarkerClick(location) }): registered where the marker is created,
\* closing over the location of that call.
\* Of the captured object the model keeps the fields other than the
\* coordinates: they tell which version of the record it is.
heldBy(location) ==
    [f \in DOMAIN location \ {"lat", "lng"} |-> location[f]]

clickListener(marker, location) == [marker EXCEPT !.location = heldBy(location)]

\* The result of a MapsService call: the service afterwards, the returned
\* value (TRUE also stands for a returned marker handle, FALSE for null) and
\* whether the call threw.
Ret(s, r) == [ms |-> s, ret |-> r, threw |-> FALSE]
Threw(s) == [ms |-> s, ret |-> FALSE, threw |-> TRUE]

\* LatLngBounds over a non-empty set of marker positions.
boundsOf(ps) ==
    [s |-> CHOOSE a \in {p.lat : p \in ps} : \A p \in ps : a <= p.lat,
     n |-> CHOOSE a \in {p.lat : p \in ps} : \A p \in ps : a >= p.lat,
     w |-> CHOOSE a \in {p.lng : p \in ps} : \A p \in ps : a <= p.lng,
     e |-> CHOOSE a \in {p.lng : p \in ps} : \A p \in ps : a >= p.lng]

\* map.fitBounds(bounds): the view is centred on the middle of the bounds and
\* the provider picks the zoom that shows them; bounds collapsed to one point
\* give the provider's closest zoom.
fitBounds(m, b) ==
    [m EXCEPT !.center = [lat |-> (b.s + b.n) \div 2, lng |-> (b.w + b.e) \div 2],
              !.zoom = IF b.s = b.n /\ b.w = b.e THEN 22 ELSE 3]

\* The viewport the provider attaches to a geocoding result or a place.
viewportOf(lat, lng) ==
    [s |-> lat - 1, n |-> lat + 1, w |-> lng - 1, e |-> lng + 1]

\* marker.setMap(null) on the temporary marker: a legacy marker leaves the
\* surface; an AdvancedMarkerElement has no setMap, the TypeError is caught by
\* the caller and the marker stays where it is.
clearTempMarker(s) ==
    IF s.tempMarker.kind = "legacy" /\ s.tempMarker.onMap
    THEN [s EXCEPT !.tempMarker.onMap = FALSE, !.tempsOnSurface = @ - 1]
    ELSE s

\* ---------------------------------------------------------- MapsService

MapsServiceInit ==
    [map |-> NoMap, geocoder |-> FALSE, mapsBuilt |-> 0,
     markers |-> [i \in Ids |-> NoMarker],
     tempMarker |-> NoMarker, tempsOnSurface |-> 0,
     onPlaceSelected |-> 0, onMarkerClick |-> FALSE]

has(s, id) == id \in Ids /\ s.markers[id].kind # "none"
size(s) == Cardinality({i \in Ids : has(s, i)})

\* initMap(mapElement): no check for an existing instance; every call that
\* passes isApiLoaded constructs a new google.maps.Map and a Geocoder.
initMap(s, apiLoaded) ==
    IF ~apiLoaded THEN Ret(s, FALSE)
    ELSE Ret([s EXCEPT !.map = [attached |-> TRUE,
                                center |-> [lat |-> defaultLat, lng |-> defaultLng],
                                zoom |-> defaultZoom],
                       !.geocoder = TRUE,
                       !.mapsBuilt = @ + 1], TRUE)

\* addTemporaryMarker, maps.service.js: the legacy fallback sits in the catch
\* block, so a position the provider rejects escapes as an exception.
addTemporaryMarkerBasic(s, lat, lng) ==
    IF ~s.map.attached THEN Ret(s, FALSE)
    ELSE LET c == clearTempMarker(s)
         IN  IF ProviderAccepts(lat, lng)
             THEN Ret([c EXCEPT !.tempMarker =
                                    IF advancedAvailable
                                    THEN AdvancedMarker(lat, lng, FALSE, FALSE)
                                    ELSE LegacyMarker(lat, lng),
                                !.tempsOnSurface = @ + 1], TRUE)
             ELSE Threw(c)

\* addTemporaryMarker, enhanced source: the fallback has its own try/catch and
\* returns null; getPosition / setPosition are patched onto the new marker.
addTemporaryMarkerEnhanced(s, lat, lng) ==
    IF ~s.map.attached THEN Ret(s, FALSE)
    ELSE LET c == clearTempMarker(s)
         IN  IF ProviderAccepts(lat, lng)
             THEN Ret([c EXCEPT !.tempMarker =
                                    IF advancedAvailable
                                    THEN AdvancedMarker(lat, lng, TRUE, TRUE)
                                    ELSE LegacyMarker(lat, lng),
                                !.tempsOnSurface = @ + 1], TRUE)
             ELSE Ret(c, FALSE)

addTemporaryMarker(s, lat, lng) ==
    IF variant = "basic" THEN addTemporaryMarkerBasic(s, lat, lng)
    ELSE addTemporaryMarkerEnhanced(s, lat, lng)

\* centerMap, maps.service.js: no validation; map.setCenter gets the literal as
\* it came and `if (zoom)` skips a zoom of 0.
centerMapBasic(s, lat, lng, zoom) ==
    IF ~s.map.attached THEN Ret(s, FALSE)
    ELSE IF ~ProviderAccepts(lat, lng) THEN Threw(s)
    ELSE Ret([s EXCEPT !.map.center = ProviderLatLng(lat, lng),
                       !.map.zoom = IF zoom.given /\ zoom.z # 0 THEN zoom.z ELSE @],
             TRUE)

\* centerMap with the temporary marker dropped before the coordinates are
\* looked at, so that a rejected call has already removed it.
centerMapClearsFirst(s, lat, lng, zoom) ==
    IF ~s.map.attached THEN Ret(s, FALSE)
    ELSE LET s0 == [clearTempMarker(s) EXCEPT !.tempMarker = NoMarker]
             conv == ~typeofNumber(lat) \/ ~typeofNumber(lng) \/ isNaN(lat) \/ isNaN(lng)
             nlat == IF conv THEN parseFloat(lat) ELSE lat
             nlng == IF conv THEN parseFloat(lng) ELSE lng
         IN  IF isNaN(nlat) \/ isNaN(nlng) THEN Ret(s0, FALSE)
             ELSE IF nlat.v < -90 \/ nlat.v > 90 \/ nlng.v < -180 \/ nlng.v > 180
             THEN Ret(s0, FALSE)
             ELSE LET s1 == [s0 EXCEPT !.map.center = ProviderLatLng(nlat, nlng),
                                       !.map.zoom = IF zoom.given THEN zoom.z ELSE @]
                  IN  Ret(addTemporaryMarkerEnhanced(s1, nlat, nlng).ms, TRUE)

\* centerMap, enhanced source: converts, range-checks, centres, then replaces
\* the temporary marker by one at the new centre.
centerMapEnhanced(s, lat, lng, zoom) ==
    IF ~s.map.attached THEN Ret(s, FALSE)
    ELSE LET conv == ~typeofNumber(lat) \/ ~typeofNumber(lng) \/ isNaN(lat) \/ isNaN(lng)
             nlat == IF conv THEN parseFloat(lat) ELSE lat
             nlng == IF conv THEN parseFloat(lng) ELSE lng
         IN  IF isNaN(nlat) \/ isNaN(nlng) THEN Ret(s, FALSE)
             ELSE IF nlat.v < -90 \/ nlat.v > 90 \/ nlng.v < -180 \/ nlng.v > 180
             THEN Ret(s, FALSE)
             ELSE LET s1 == [s EXCEPT !.map.center = ProviderLatLng(nlat, nlng),
                                      !.map.zoom = IF zoom.given THEN zoom.z ELSE @]
                      s2 == IF s1.tempMarker.kind = "legacy"
                            THEN [clearTempMarker(s1) EXCEPT !.tempMarker = NoMarker]
                            ELSE s1
                  IN  Ret(addTemporaryMarkerEnhanced(s2, nlat, nlng).ms, TRUE)

centerMap(s, lat, lng, zoom) ==
    IF variant = "basic" THEN centerMapBasic(s, lat, lng, zoom)
    ELSE centerMapEnhanced(s, lat, lng, zoom)

\* addLocationMarker, maps.service.js: an existing marker is moved through
\* marker.setPosition, which an AdvancedMarkerElement does not have; a new
\* marker is registered under location.id. Nothing validates the coordinates.
addLocationMarkerBasic(s, loc) ==
    IF ~s.map.attached THEN Ret(s, FALSE)
    ELSE IF loc.id \notin Ids THEN Ret(s, FALSE)
    ELSE IF has(s, loc.id)
    THEN IF ~s.markers[loc.id].hasSetPosition THEN Threw(s)
         ELSE IF ~ProviderAccepts(loc.lat, loc.lng) THEN Threw(s)
         ELSE Ret([s EXCEPT !.markers[loc.id].pos = ProviderLatLng(loc.lat, loc.lng)],
                  TRUE)
    ELSE IF ~ProviderAccepts(loc.lat, loc.lng) THEN Threw(s)
    ELSE Ret([s EXCEPT !.markers[loc.id] =
                           clickListener(
                               IF advancedAvailable
                               THEN AdvancedMarker(loc.lat, loc.lng, FALSE, FALSE)
                               ELSE LegacyMarker(loc.lat, loc.lng), loc)], TRUE)

\* addLocationMarker, enhanced source: the move is chosen by marker type inside
\* a try/catch; creation patches getPosition / setPosition onto an advanced
\* marker and returns null when neither constructor takes the position.
addLocationMarkerEnhanced(s, loc) ==
    IF ~s.map.attached THEN Ret(s, FALSE)
    ELSE IF loc.id \notin Ids THEN Ret(s, FALSE)
    ELSE IF has(s, loc.id)
    THEN IF ~ProviderAccepts(loc.lat, loc.lng) THEN Ret(s, TRUE)
         ELSE Ret([s EXCEPT !.markers[loc.id].pos = ProviderLatLng(loc.lat, loc.lng)],
                  TRUE)
    ELSE IF ~ProviderAccepts(loc.lat, loc.lng) THEN Ret(s, FALSE)
    ELSE Ret([s EXCEPT !.markers[loc.id] =
                           clickListener(
                               IF advancedAvailable
                               THEN AdvancedMarker(loc.lat, loc.lng, TRUE, TRUE)
                               ELSE LegacyMarker(loc.lat, loc.lng), loc)], TRUE)

addLocationMarker(s, loc) ==
    IF variant = "basic" THEN addLocationMarkerBasic(s, loc)
    ELSE addLocationMarkerEnhanced(s, loc)

\* setMarkerClickHandler(callback): the one handler field.
setMarkerClickHandler(s) == [s EXCEPT !.onMarkerClick = TRUE]

\* A click on the registered marker of id: what its listener hands to the
\* handler, NoLocation when no handler is set.
markerClick(s, id) ==
    IF s.onMarkerClick THEN s.markers[id].location ELSE NoLocation

\* removeLocationMarker (the same in both sources): marker.setMap(null), then
\* markers.delete; setMap is not a function on an AdvancedMarkerElement.
removeLocationMarker(s, id) ==
    IF has(s, id)
    THEN IF s.markers[id].kind = "advanced" THEN Threw(s)
         ELSE Ret([s EXCEPT !.markers[id] = NoMarker], TRUE)
    ELSE Ret(s, FALSE)

\* showAllMarkers that resets the view to the configured default when there
\* is nothing to show.
showAllMarkersResetsView(s) ==
    IF ~s.map.attached THEN Ret(s, FALSE)
    ELSE Ret([s EXCEPT !.map.center = [lat |-> defaultLat, lng |-> defaultLng],
                       !.map.zoom = defaultZoom], FALSE)

\* showAllMarkers, maps.service.js: bounds.extend(marker.getPosition()) for
\* every marker, fitBounds, and searchZoom when markers.size is 1.
showAllMarkersBasic(s) ==
    IF ~s.map.attached \/ size(s) = 0 THEN Ret(s, FALSE)
    ELSE IF \E i \in Ids : has(s, i) /\ ~s.markers[i].hasGetPosition THEN Threw(s)
    ELSE LET b == boundsOf({s.markers[i].pos : i \in {j \in Ids : has(s, j)}})
             m == fitBounds(s.map, b)
         IN  Ret([s EXCEPT !.map = IF size(s) = 1
                                   THEN [m EXCEPT !.zoom = searchZoom]
                                   ELSE m], TRUE)

\* showAllMarkers, enhanced source: the position comes from marker.position
\* (advanced) or marker.getPosition() (legacy), each marker in its own
\* try/catch; searchZoom when exactly one valid position was found.
showAllMarkersEnhanced(s) ==
    IF ~s.map.attached THEN Ret(s, FALSE)
    ELSE IF size(s) = 0 THEN Ret(s, FALSE)
    ELSE LET valid == {i \in Ids : has(s, i) /\ s.markers[i].kind \in {"advanced", "legacy"}}
         IN  IF valid = {} THEN Ret(s, FALSE)
             ELSE LET m == fitBounds(s.map, boundsOf({s.markers[i].pos : i \in valid}))
                  IN  Ret([s EXCEPT !.map = IF Cardinality(valid) = 1
                                            THEN [m EXCEPT !.zoom = searchZoom]
                                            ELSE m], TRUE)

showAllMarkers(s) ==
    IF variant = "basic" THEN showAllMarkersBasic(s) ELSE showAllMarkersEnhanced(s)

\* searchPlace that zooms to searchZoom before it looks at the results.
searchPlaceZoomsFirst(s, res) ==
    IF ~s.geocoder THEN Threw(s)
    ELSE IF ~res.found THEN Threw([s EXCEPT !.map.zoom = searchZoom])
    ELSE Ret([s EXCEPT !.map.zoom = searchZoom], TRUE)

\* searchPlace after `await geocoder.geocode`: res.found says whether the
\* provider returned a result, res.lat / res.lng are the numbers read through
\* location.lat() / location.lng(), res.viewport whether geometry.viewport is
\* set. The view is moved and the temporary marker dropped before the data is
\* returned; an exception of either step is rethrown.
searchPlace(s, res) ==
    IF ~s.geocoder THEN Threw(s)
    ELSE IF ~res.found THEN Threw(s)
    ELSE LET c == IF res.viewport
                  THEN Ret([s EXCEPT !.map = fitBounds(s.map, viewportOf(res.lat, res.lng))],
                           TRUE)
                  ELSE centerMap(s, Num(res.lat), Num(res.lng), Zoom(searchZoom))
         IN  IF c.threw THEN c
             ELSE LET t == addTemporaryMarker(c.ms, Num(res.lat), Num(res.lng))
                  IN  IF t.threw THEN t ELSE Ret(t.ms, TRUE)

\* The gmp-placeselect listener after `await place.fetchFields`: place.ok says
\* whether the fetch succeeded with place.location set; place.lat / place.lng
\* are place.location.lat / .lng as the provider exposes them (numbers or
\* accessor functions), passed on unchanged. ret is TRUE when the registered
\* onPlaceSelected callback is reached.
placeSelect(s, place) ==
    IF ~place.ok THEN Threw(s)
    ELSE LET c == IF ~s.map.attached THEN Ret(s, TRUE)
                  ELSE IF place.viewport
                  THEN Ret([s EXCEPT !.map =
                                fitBounds(s.map, viewportOf(place.lat.v, place.lng.v))],
                           TRUE)
                  ELSE centerMap(s, place.lat, place.lng, Zoom(searchZoom))
             t1 == IF c.threw \/ ~s.map.attached THEN c
                   ELSE addTemporaryMarker(c.ms, place.lat, place.lng)
             t2 == IF t1.threw \/ variant # "basic" THEN t1
                   ELSE addTemporaryMarker(t1.ms, place.lat, place.lng)
         IN  IF t2.threw THEN t2 ELSE Ret(t2.ms, TRUE)

\* ------------------------------------------------ MapsService as an object

\* Coordinate pairs a caller may pass: valid ones, a latitude and a longitude
\* out of range, NaN in either slot.
CoordPairs ==
    {<<Num(40), Num(-75)>>, <<Num(10), Num(20)>>, <<Num(91), Num(-75)>>,
     <<Num(40), Num(181)>>, <<NaN, Num(-75)>>}

\* What the provider may expose as place.location.lat / .lng.
\* The placeData the gmp-placeselect listener hands to the registered
\* handler: lat and lng are place.location.lat and place.location.lng as read,
\* without a call.
placeData(place) == [lat |-> place.lat, lng |-> place.lng]

\* What searchPlace returns: lat and lng are read through location.lat() and
\* location.lng().
searchResult(res) == [lat |-> Num(res.lat), lng |-> Num(res.lng)]

PlaceCoordPairs == {<<Num(40), Num(-75)>>, <<Fn(40), Fn(-75)>>}

ZoomArgs == {NoZoom, Zoom(0), Zoom(18)}

NoCall == [op |-> "none", ret |-> FALSE, threw |-> FALSE]

Called(op, r) ==
    /\ r.ms.tempsOnSurface <= MaxTemps
    /\ r.ms.mapsBuilt <= MaxMaps
    /\ ms' = r.ms
    /\ lastCall' = [op |-> op, ret |-> r.ret, threw |-> r.threw]
    /\ UNCHANGED <<variant, advancedAvailable, events, clicked, storeVars, appVars>>

SInitMap ==
    Called("initMap", initMap(ms, TRUE))

SCenterMap ==
    \E c \in CoordPairs, z \in ZoomArgs :
        Called("centerMap", centerMap(ms, c[1], c[2], z))

SAddTemporaryMarker ==
    \E c \in CoordPairs :
        Called("addTemporaryMarker", addTemporaryMarker(ms, c[1], c[2]))

SAddLocationMarker ==
    \E c \in CoordPairs, i \in 0..MaxLocs :
        Called("addLocationMarker",
               addLocationMarker(ms, [id |-> i, lat |-> c[1], lng |-> c[2]]))

SRemoveLocationMarker ==
    \E i \in Ids :
        Called("removeLocationMarker", removeLocationMarker(ms, i))

SShowAllMarkers ==
    Called("showAllMarkers", showAllMarkers(ms))

SSearchPlace ==
    \E found \in BOOLEAN, vp \in BOOLEAN :
        Called("searchPlace",
               searchPlace(ms, [found |-> found, lat |-> 40, lng |-> -75, viewport |-> vp]))

SPlaceSelect ==
    \E ok \in BOOLEAN, vp \in BOOLEAN, c \in PlaceCoordPairs :
        Called("placeSelect",
               placeSelect(ms, [ok |-> ok, lat |-> c[1], lng |-> c[2], viewport |-> vp]))

\* ------------------------------------------------------ the search widget

\* setPlaceSelectedHandler(callback): one field, the last registration wins.
\* Handlers are numbered in the order they are registered, 0 is null.
setPlaceSelectedHandler(s, cb) == [s EXCEPT !.onPlaceSelected = cb]

\* A gmp-placeselect event: pc is "none" before it happens, "fetching" while
\* the listener awaits place.fetchFields, then "done" or "failed" (the
\* listener threw); fetch is how fetchFields ends ("ok", "nolocation",
\* "failed"); seen is the handler registered when the event happened; calls
\* counts the invocations of a handler for this event and by is the handler
\* invoked.
NoEvent ==
    [pc |-> "none", fetch |-> "ok", lat |-> Num(0), lng |-> Num(0),
     viewport |-> FALSE, seen |-> 0, calls |-> 0, by |-> 0]

NoEvents == [e \in 1..MaxEvents |-> NoEvent]

\* A listener that calls the handler it saw when the event happened.
callbackCaptured(s, ev) == ev.seen

\* `if (this.onPlaceSelected) this.onPlaceSelected(placeData)`: the field is
\* read when the listener gets there.
callbackAt(s, ev) == s.onPlaceSelected

\* The listener behind `await place.fetchFields`: a rejected fetch and a place
\* without location end it with an exception; else the map part runs and the
\* handler, if there is one, is called once.
listenerResumes(s, ev) ==
    LET r == placeSelect(s, [ok |-> ev.fetch = "ok", lat |-> ev.lat, lng |-> ev.lng,
                             viewport |-> ev.viewport])
        cb == callbackAt(r.ms, ev)
    IN  IF ev.fetch = "failed" THEN [ms |-> s, ev |-> [ev EXCEPT !.pc = "failed"]]
        ELSE IF r.threw THEN [ms |-> r.ms, ev |-> [ev EXCEPT !.pc = "failed"]]
        ELSE IF cb = 0 THEN [ms |-> r.ms, ev |-> [ev EXCEPT !.pc = "done"]]
        ELSE [ms |-> r.ms,
              ev |-> [ev EXCEPT !.pc = "done", !.calls = @ + 1, !.by = cb]]

\* PlaceSearchComponent's effect: it runs again whenever onPlaceSelected is a
\* new function, and registers a new closure each time.
WRegister ==
    /\ ms.onPlaceSelected < MaxHandlers
    /\ ms' = setPlaceSelectedHandler(ms, ms.onPlaceSelected + 1)
    /\ UNCHANGED <<variant, advancedAvailable, events, clicked, lastCall, storeVars, appVars>>

\* The user picks a suggestion: the listener starts and awaits fetchFields.
WSelect ==
    \E e \in 1..MaxEvents, f \in {"ok", "nolocation", "failed"},
       c \in PlaceCoordPairs, vp \in BOOLEAN :
        /\ events[e].pc = "none"
        /\ \A d \in 1..(e - 1) : events[d].pc # "none"
        /\ events' = [events EXCEPT ![e] =
                         [NoEvent EXCEPT !.pc = "fetching", !.fetch = f,
                                         !.lat = c[1], !.lng = c[2], !.viewport = vp,
                                         !.seen = ms.onPlaceSelected]]
        /\ UNCHANGED <<variant, advancedAvailable, ms, lastCall, clicked, storeVars, appVars>>

\* fetchFields of an event settles and its listener runs to its end.
WFetched ==
    \E e \in 1..MaxEvents :
        LET l == listenerResumes(ms, events[e])
        IN  /\ events[e].pc = "fetching"
            /\ l.ms.tempsOnSurface <= MaxTemps
            /\ ms' = l.ms
            /\ events' = [events EXCEPT ![e] = l.ev]
            /\ UNCHANGED <<variant, advancedAvailable, lastCall, clicked, storeVars, appVars>>

\* ------------------------------------- FirebaseService / LocationsProvider

NoUser == "none"
NoError == "none"
Users == {"u1", "u2"}
Slots == 1..MaxInflight

\* A document that does not exist.
NoRec ==
    [exists |-> FALSE, id |-> 0, name |-> "", lat |-> Empty, lng |-> Empty,
     userId |-> NoUser, createdAt |-> 0, updatedAt |-> 0]

NoResp == [kind |-> "none", ok |-> FALSE, id |-> 0, rec |-> NoRec, list |-> <<>>]

\* {...a, ...b}: the members of b override those of a.
spread(a, b) ==
    [f \in DOMAIN a \cup DOMAIN b |-> IF f \in DOMAIN b THEN b[f] ELSE a[f]]

RECURSIVE docsOf(_, _, _)
\* getLocations(userId): the documents whose userId matches, as {id, ...data}.
docsOf(r, uid, i) ==
    IF i > MaxLocs THEN <<>>
    ELSE IF r[i].exists /\ r[i].userId = uid
         THEN <<r[i]>> \o docsOf(r, uid, i + 1)
         ELSE docsOf(r, uid, i + 1)

getLocations(r, uid) == docsOf(r, uid, 1)

\* addLocation that stores the draft without the two timestamps.
addLocationDocUnstamped(data, uid, id, now) ==
    spread(spread(NoRec, data), [exists |-> TRUE, id |-> id, userId |-> uid])

\* firebaseService.addLocation: the document {...locationData, userId,
\* createdAt, updatedAt} under a fresh id, returned as {id, ...locationWithUser}.
addLocationDoc(data, uid, id, now) ==
    spread(spread(NoRec, data),
           [exists |-> TRUE, id |-> id, userId |-> uid,
            createdAt |-> now, updatedAt |-> now])

\* updateData without the refreshed updatedAt.
updateDataStale(data, now) == data

\* firebaseService.updateLocation: updateData is {...locationData, updatedAt}.
updateData(data, now) == spread(data, [updatedAt |-> now])

\* updateDoc merges updateData into the existing document; the call returns
\* {id, ...updateData}, not the document.
updateLocationResult(id, data, now) == spread(updateData(data, now), [id |-> id])

\* The map of updateLocation with the spread the other way round: the fields
\* of the record already in the snapshot win over those of the response.
mapUpdatedKeepsOld(locs, id, upd) ==
    [i \in 1..Len(locs) |-> IF locs[i].id = id THEN spread(upd, locs[i]) ELSE locs[i]]

RECURSIVE mapUpdated(_, _, _)
\* prevLocations.map(l => l.id === locationId ? {...l, ...updated} : l)
mapUpdated(locs, id, upd) ==
    IF locs = <<>> THEN <<>>
    ELSE <<IF Head(locs).id = id THEN spread(Head(locs), upd) ELSE Head(locs)>>
         \o mapUpdated(Tail(locs), id, upd)

RECURSIVE filterOut(_, _)
\* prevLocations.filter(l => l.id !== locationId)
filterOut(locs, id) ==
    IF locs = <<>> THEN <<>>
    ELSE IF Head(locs).id = id THEN filterOut(Tail(locs), id)
         ELSE <<Head(locs)>> \o filterOut(Tail(locs), id)

\* What the continuation of an awaited call does to the snapshot: the state
\* setter after the await on success, nothing in the catch branch.
applyResponse(locs, resp) ==
    IF ~resp.ok THEN locs
    ELSE CASE resp.kind = "list" -> resp.list
           [] resp.kind = "add" -> Append(locs, resp.rec)
           [] resp.kind = "update" -> mapUpdated(locs, resp.id, resp.rec)
           [] resp.kind = "delete" -> filterOut(locs, resp.id)
           [] OTHER -> locs

\* error after the continuation: cleared when the call started, set to the
\* message in the catch branch.
errorAfter(err, resp) == IF resp.ok THEN err ELSE "failed"

\* loading after the continuation: only loadLocations touches it (finally).
loadingAfter(l, resp) == IF resp.kind = "list" THEN FALSE ELSE l

\* The awaited call takes the first free slot.
FreeSlot(sl) ==
    /\ inflight[sl].kind = "none"
    /\ \A t \in Slots : t < sl => inflight[t].kind # "none"

await(resp) ==
    \E sl \in Slots : FreeSlot(sl) /\ inflight' = [inflight EXCEPT ![sl] = resp]

\* LocationsProvider.loadLocations up to its await: the remote answers with
\* the user's documents, or the call fails.
loadLocations(uid, ok) ==
    /\ locLoading' = TRUE
    /\ locError' = NoError
    /\ await([NoResp EXCEPT !.kind = "list", !.ok = ok,
                            !.list = IF ok THEN getLocations(remote, uid) ELSE <<>>])
    /\ UNCHANGED <<remote, nextId, clock, locations>>

\* LocationsProvider.addLocation up to its await. firebaseService.addLocation
\* throws when nobody is signed in; otherwise the document is written under
\* the next id, or the write fails.
addLocation(data, ok) ==
    LET done == ok /\ user # NoUser
        doc == addLocationDoc(data, user, nextId, clock + 1)
    IN  /\ done => nextId <= MaxLocs /\ clock < MaxClock
        /\ locError' = NoError
        /\ remote' = IF done THEN [remote EXCEPT ![nextId] = doc] ELSE remote
        /\ nextId' = IF done THEN nextId + 1 ELSE nextId
        /\ clock' = IF done THEN clock + 1 ELSE clock
        /\ await([NoResp EXCEPT !.kind = "add", !.ok = done,
                                !.rec = IF done THEN doc ELSE NoRec])
        /\ UNCHANGED <<locations, locLoading>>

\* LocationsProvider.updateLocation up to its await. updateDoc fails for an
\* id without a document (an undefined id included).
updateLocation(id, data, ok) ==
    LET done == ok /\ id \in Ids /\ remote[id].exists
    IN  /\ done => clock < MaxClock
        /\ locError' = NoError
        /\ remote' = IF done
                     THEN [remote EXCEPT ![id] = spread(remote[id], updateData(data, clock + 1))]
                     ELSE remote
        /\ clock' = IF done THEN clock + 1 ELSE clock
        /\ await([NoResp EXCEPT !.kind = "update", !.ok = done, !.id = id,
                                !.rec = updateLocationResult(id, data, clock + 1)])
        /\ UNCHANGED <<nextId, locations, locLoading>>

\* deleteLocation that takes the location out of the snapshot before the
\* remote call has answered.
deleteLocationOptimistic(id, ok) ==
    /\ locError' = NoError
    /\ remote' = IF ok /\ id \in Ids THEN [remote EXCEPT ![id] = NoRec] ELSE remote
    /\ locations' = filterOut(locations, id)
    /\ await([NoResp EXCEPT !.kind = "delete", !.ok = ok, !.id = id])
    /\ UNCHANGED <<nextId, clock, locLoading>>

\* LocationsProvider.deleteLocation up to its await. deleteDoc succeeds
\* whether or not the document exists.
deleteLocation(id, ok) ==
    /\ locError' = NoError
    /\ remote' = IF ok /\ id \in Ids THEN [remote EXCEPT ![id] = NoRec] ELSE remote
    /\ await([NoResp EXCEPT !.kind = "delete", !.ok = ok, !.id = id])
    /\ UNCHANGED <<nextId, clock, locations, locLoading>>

\* The continuation after the await of the call in slot sl.
resume(sl) ==
    /\ inflight[sl].kind # "none"
    /\ locations' = applyResponse(locations, inflight[sl])
    /\ locError' = errorAfter(locError, inflight[sl])
    /\ locLoading' = loadingAfter(locLoading, inflight[sl])
    /\ lastResp' = [kind |-> inflight[sl].kind, ok |-> inflight[sl].ok]
    /\ inflight' = [inflight EXCEPT ![sl] = NoResp]
    /\ UNCHANGED <<remote, nextId, clock>>

\* ------------------------------------------------ LocationStore, as driven
\* by any consumer of the context

Drafts ==
    {[name |-> "HQ", lat |-> Num(40), lng |-> Num(-75)],
     [name |-> "B", lat |-> Num(10), lng |-> Num(20)]}

Patches == {[name |-> "A"], [name |-> "B"]}

\* The auth listener reports a user (after nobody, or after another user):
\* the provider's effect on [user] calls loadLocations.
StSignIn ==
    \E u \in Users, ok \in BOOLEAN :
        /\ user # u
        /\ user' = u
        /\ loadLocations(u, ok)
        /\ UNCHANGED <<surfaceVars, appVars, lastResp>>

\* The auth listener reports null: the effect empties the snapshot and
\* clears loading.
StSignOut ==
    /\ user # NoUser
    /\ user' = NoUser
    /\ locations' = <<>>
    /\ locLoading' = FALSE
    /\ UNCHANGED <<surfaceVars, appVars, remote, nextId, clock, locError, inflight, lastResp>>

StAddLocation ==
    \E d \in Drafts, ok \in BOOLEAN :
        /\ addLocation(d, ok)
        /\ UNCHANGED <<surfaceVars, appVars, user, lastResp>>

StUpdateLocation ==
    \E i \in Ids, d \in Patches, ok \in BOOLEAN :
        /\ updateLocation(i, d, ok)
        /\ UNCHANGED <<surfaceVars, appVars, user, lastResp>>

StDeleteLocation ==
    \E i \in Ids, ok \in BOOLEAN :
        /\ deleteLocation(i, ok)
        /\ UNCHANGED <<surfaceVars, appVars, user, lastResp>>

StResume ==
    \E sl \in Slots :
        /\ resume(sl)
        /\ UNCHANGED <<surfaceVars, appVars, user>>

\* ------------------------------------------------------------ the application

\* Cap on init-effect timers pending at the same time.
MaxTimers == 2
\* Cap on store calls the interface awaits at the same time.
MaxAwaited == 1

awaited == Cardinality({sl \in Slots : inflight[sl].kind # "none"})

\* The zoom and the attempt limit of handleViewLocation.
viewZoom == 18
maxAttempts == 3

Components == {"search", "map", "list"}
NoHook == [isLoaded |-> FALSE, loadError |-> FALSE, mapInitialized |-> FALSE]

\* The instance whose effect runs first finds no script element and creates
\* it with the error listener; Dashboard renders PlaceSearchComponent before
\* MapComponent, and LocationList only after the first list load. The other
\* instances find the element and poll for window.google.maps.
ScriptOwner == "search"

\* What MapComponent returns: the loading box while its instance has not
\* seen isLoaded, then the error box, then the map container.
mapArea(h) ==
    IF ~h.isLoaded THEN "loading"
    ELSE IF h.loadError THEN "error"
    ELSE "map"

\* useGoogleMaps: every wrapper looks at the state of its own instance h
\* before it reaches the shared mapsService.
hookInitMap(h, s) ==
    IF ~h.isLoaded THEN Ret(s, FALSE) ELSE initMap(s, TRUE)

hookCenterMapOfSharedMap(h, s, lat, lng, zoom) ==
    IF ~s.map.attached THEN Ret(s, FALSE) ELSE centerMap(s, lat, lng, zoom)

hookCenterMap(h, s, lat, lng, zoom) ==
    IF ~h.mapInitialized THEN Ret(s, FALSE) ELSE centerMap(s, lat, lng, zoom)

hookAddLocationMarker(h, s, loc) ==
    IF ~h.mapInitialized THEN Ret(s, FALSE) ELSE addLocationMarker(s, loc)

hookShowAllMarkers(h, s) ==
    IF ~h.mapInitialized THEN Ret(s, FALSE) ELSE showAllMarkers(s)

hookRemoveLocationMarker(h, s, id) ==
    IF ~h.mapInitialized THEN Ret(s, FALSE) ELSE removeLocationMarker(s, id)

RECURSIVE forEachAdd(_, _, _)
\* locations.forEach(location => addLocationMarker(location))
forEachAdd(h, s, locs) ==
    IF locs = <<>> THEN Ret(s, TRUE)
    ELSE LET r == hookAddLocationMarker(h, s, Head(locs))
         IN  IF r.threw THEN r ELSE forEachAdd(h, r.ms, Tail(locs))

\* MapComponent's marker-click effect, which runs before the markers effect.
clickHandlerEffect(h, s) ==
    IF h.mapInitialized THEN setMarkerClickHandler(s) ELSE s

\* MapComponent's markers effect: a marker per listed location, then
\* showAllMarkers; nothing when the list is empty or the map is not there.
markersEffect(h, s, locs) ==
    IF h.mapInitialized /\ Len(locs) > 0
    THEN LET a == forEachAdd(h, s, locs)
         IN  IF a.threw THEN a ELSE hookShowAllMarkers(h, a.ms)
    ELSE Ret(s, TRUE)

\* MapComponent's init effect: initMap changes identity with every render, so
\* the effect runs after every render and starts one more 500 ms timer as long
\* as this instance has not seen initMap succeed.
initEffect(h, timers) ==
    IF h.isLoaded /\ ~h.mapInitialized THEN timers + 1 ELSE timers

\* One render of MapComponent followed by its effects.
render(h, s, locs, timers) ==
    LET m == markersEffect(h, clickHandlerEffect(h, s), locs)
    IN  [ms |-> m.ms, timers |-> initEffect(h, timers), threw |-> m.threw]

norender(s, timers) == [ms |-> s, timers |-> timers, threw |-> FALSE]

commit(r) ==
    /\ r.timers <= MaxTimers
    /\ r.ms.tempsOnSurface <= MaxTemps
    /\ r.ms.mapsBuilt <= MaxMaps
    /\ ms' = r.ms
    /\ initTimers' = r.timers
    /\ crashed' = r.threw

\* Dashboard's showLocationForm / editingLocation and LocationForm's error /
\* loading. The text fields are not kept: they are typed before each Save.
NoDialog == [open |-> FALSE, editing |-> NoRec, error |-> FALSE, loading |-> FALSE]

\* pc is "scheduled" while a timer of the chain is pending; attempt is the
\* attemptNumber that timer will pass, lat / lng what the closure captured.
NoView == [pc |-> "idle", attempt |-> 0, lat |-> Num(0), lng |-> Num(0)]

\* What the user may have typed when pressing Save.
FormInputs ==
    {[name |-> "", address |-> "A", lat |-> Str(40), lng |-> Str(-75)],
     [name |-> "HQ", address |-> "", lat |-> Str(40), lng |-> Str(-75)],
     [name |-> "HQ", address |-> "A", lat |-> Str(40), lng |-> Str(-75)],
     [name |-> "HQ", address |-> "A", lat |-> Str(91), lng |-> Str(-75)],
     [name |-> "HQ", address |-> "A", lat |-> Text, lng |-> Str(-75)],
     [name |-> "HQ", address |-> "A", lat |-> Empty, lng |-> Empty]}

\* What the geocoder may answer.
GeoResults ==
    {[found |-> f, lat |-> 40, lng |-> -75, viewport |-> FALSE] : f \in BOOLEAN}

rejected(f, s) == [save |-> FALSE, ms |-> s, data |-> NoRec]

\* LocationForm.handleSubmit up to the call of the store: save says whether
\* addLocation / updateLocation is reached, data is locationData.
handleSubmit(f, s, geo) ==
    IF f.name = "" THEN rejected(f, s)
    ELSE IF f.address = "" THEN rejected(f, s)
    ELSE IF ~truthy(f.lat) \/ ~truthy(f.lng)
    THEN LET g == searchPlace(s, geo)
         IN  IF g.threw THEN rejected(f, g.ms)
             ELSE [save |-> TRUE, ms |-> g.ms,
                   data |-> [name |-> f.name, lat |-> parseFloat(searchResult(geo).lat),
                             lng |-> parseFloat(searchResult(geo).lng)]]
    ELSE LET latNum == parseFloat(f.lat)
             lngNum == parseFloat(f.lng)
         IN  IF isNaN(latNum) \/ isNaN(lngNum) THEN rejected(f, s)
             ELSE [save |-> TRUE, ms |-> s,
                   data |-> [name |-> f.name, lat |-> parseFloat(latNum),
                             lng |-> parseFloat(lngNum)]]

\* handleViewLocation before its first timer: whether the coordinates of the
\* card's location pass the NaN and the range check.
viewable(loc) ==
    LET numLat == parseFloat(loc.lat)
        numLng == parseFloat(loc.lng)
    IN  /\ ~isNaN(numLat) /\ ~isNaN(numLng)
        /\ ~(numLat.v < -90 \/ numLat.v > 90 \/ numLng.v < -180 \/ numLng.v > 180)

\* attemptMapCenter with the limit compared by <= instead of <.
attemptMapCenterOffByOne(v, h, s) ==
    LET r == hookCenterMap(h, s, v.lat, v.lng, Zoom(viewZoom))
    IN  [ms |-> r.ms, ret |-> r.ret, threw |-> r.threw,
         view |-> IF ~r.ret /\ v.attempt <= maxAttempts
                  THEN [v EXCEPT !.attempt = @ + 1]
                  ELSE NoView]

\* attemptMapCenter(attemptNumber) through the centerMap of the list's hook.
attemptMapCenter(v, h, s) ==
    LET r == hookCenterMap(h, s, v.lat, v.lng, Zoom(viewZoom))
    IN  [ms |-> r.ms, ret |-> r.ret, threw |-> r.threw,
         view |-> IF ~r.ret /\ v.attempt < maxAttempts
                  THEN [v EXCEPT !.attempt = @ + 1]
                  ELSE NoView]

SignIn ==
    \E u \in Users, ok \in BOOLEAN :
        /\ ~crashed /\ user = NoUser /\ awaited < MaxAwaited
        /\ user' = u
        /\ loadLocations(u, ok)
        /\ api' = IF api = "idle" THEN "loading" ELSE api
        /\ commit(norender(ms, initTimers))
        /\ UNCHANGED <<variant, advancedAvailable, events, clicked, lastCall, lastResp,
                       selectedLocation, hook, dialog, view>>

\* The script's load event: every hook instance sees isLoaded, and
\* PlaceSearchComponent's effect sets the widget up and registers its handler.
ScriptLoaded ==
    /\ ~crashed /\ api = "loading"
    /\ api' = "loaded"
    /\ hook' = [c \in Components |->
                    [hook[c] EXCEPT !.isLoaded = TRUE, !.loadError = FALSE]]
    /\ commit(render(hook'.map, setPlaceSelectedHandler(ms, 1), locations, initTimers))
    /\ UNCHANGED <<variant, advancedAvailable, events, clicked, lastCall, storeVars,
                   selectedLocation, dialog, view>>

\* The script's error event reaches the listener of the instance that
\* created the element: setLoadError there, nothing in the others.
ScriptFailed ==
    /\ ~crashed /\ api = "loading"
    /\ api' = "failed"
    /\ hook' = [hook EXCEPT ![ScriptOwner].loadError = TRUE]
    /\ UNCHANGED <<surfaceVars, storeVars, selectedLocation, initTimers,
                   crashed, dialog, view>>

\* The callback of one init timer: initMap, setMapInitialized, and the render
\* that follows when the flag changed.
InitTimerFires ==
    LET r == hookInitMap(hook.map, ms)
        h == [hook.map EXCEPT !.mapInitialized = r.ret]
    IN  /\ ~crashed /\ initTimers > 0
        /\ hook' = [hook EXCEPT !.map = h]
        /\ commit(IF h # hook.map
                  THEN render(h, r.ms, locations, initTimers - 1)
                  ELSE norender(r.ms, initTimers - 1))
        /\ UNCHANGED <<variant, advancedAvailable, events, clicked, lastCall, storeVars,
                       selectedLocation, api, dialog, view>>

OpenAdd ==
    /\ ~crashed /\ user # NoUser /\ ~dialog.open
    /\ dialog' = [dialog EXCEPT !.open = TRUE, !.editing = NoRec]
    /\ commit(render(hook.map, ms, locations, initTimers))
    /\ UNCHANGED <<variant, advancedAvailable, events, clicked, lastCall, storeVars,
                   selectedLocation, api, hook, view>>

CloseForm ==
    /\ ~crashed /\ dialog.open /\ ~dialog.loading
    /\ dialog' = [dialog EXCEPT !.open = FALSE, !.editing = NoRec]
    /\ commit(render(hook.map, ms, locations, initTimers))
    /\ UNCHANGED <<variant, advancedAvailable, events, clicked, lastCall, storeVars,
                   selectedLocation, api, hook, view>>

\* Dashboard.handlePlaceSelected: editingLocation becomes an object made from
\* the place, which has no id property (id 0 here), and the form is shown.
handlePlaceSelected(d, place) ==
    [d EXCEPT !.open = TRUE,
              !.editing = [NoRec EXCEPT !.exists = TRUE, !.name = "P",
                                        !.lat = place.lat, !.lng = place.lng]]

\* The places the search widget hands over: with or without location data.
SelectedPlaces ==
    {[ok |-> ok, lat |-> Num(40), lng |-> Num(-75), viewport |-> FALSE] : ok \in BOOLEAN}

\* A selection in the search widget: the service's gmp-placeselect listener,
\* then the handler PlaceSearchComponent registered, then the render.
PlaceSelected ==
    \E place \in SelectedPlaces :
        LET r == placeSelect(ms, place)
        IN  /\ ~crashed /\ user # NoUser /\ api = "loaded" /\ ~dialog.open
            /\ dialog' = IF r.threw \/ r.ms.onPlaceSelected = 0 THEN dialog
                         ELSE handlePlaceSelected(dialog, placeData(place))
            /\ commit(IF r.threw \/ r.ms.onPlaceSelected = 0
                      THEN norender(r.ms, initTimers)
                      ELSE render(hook.map, r.ms, locations, initTimers))
            /\ UNCHANGED <<variant, advancedAvailable, events, clicked, lastCall, storeVars,
                           selectedLocation, api, hook, view>>

\* handleSubmit that forgets setError on its early returns.
submittedSilently(d, o) == [d EXCEPT !.loading = o.save]

\* The form after handleSubmit ran up to its first await or its return: an
\* early return leaves an error message, a store call leaves loading set.
submitted(d, o) == [d EXCEPT !.error = ~o.save, !.loading = o.save]

Submit ==
    \E f \in FormInputs, geo \in GeoResults, ok \in BOOLEAN :
        LET o == handleSubmit(f, ms, geo)
        IN  /\ ~crashed /\ dialog.open /\ ~dialog.loading
            /\ dialog' = submitted(dialog, o)
            /\ o.save => awaited < MaxAwaited
            /\ IF ~o.save
               THEN UNCHANGED <<remote, nextId, clock, locations, locLoading,
                                locError, inflight>>
               ELSE IF dialog.editing # NoRec
               THEN updateLocation(dialog.editing.id, o.data, ok)
               ELSE addLocation(o.data, ok)
            /\ commit(IF o.save /\ locError # NoError
                      THEN render(hook.map, o.ms, locations, initTimers)
                      ELSE norender(o.ms, initTimers))
            /\ UNCHANGED <<variant, advancedAvailable, events, clicked, lastCall, user, lastResp,
                           selectedLocation, api, hook, view>>

\* handleDeleteLocation behind a deleteLocation that resolved: the render of
\* the new list, then the 500 ms timer's showAllMarkers of the list's hook.
afterDelete(h, r) ==
    LET t == hookShowAllMarkers(h, r.ms)
    IN  [ms |-> t.ms, timers |-> r.timers, threw |-> r.threw \/ t.threw]

\* The continuation of an awaited store call, the caller's continuation behind
\* it (the form's onClose(true) or the error kept in the open dialog; the
\* list's showAllMarkers after a delete), and the render.
Resume ==
    \E sl \in Slots :
        /\ ~crashed
        /\ resume(sl)
        /\ dialog' = IF inflight[sl].kind \notin {"add", "update"} THEN dialog
                     ELSE IF inflight[sl].ok
                     THEN [dialog EXCEPT !.open = FALSE, !.editing = NoRec,
                                         !.loading = FALSE]
                     ELSE [dialog EXCEPT !.error = TRUE, !.loading = FALSE]
        /\ commit(LET r == render(hook.map, ms, locations', initTimers)
                  IN  IF inflight[sl].kind = "delete" /\ inflight[sl].ok
                      THEN afterDelete(hook.list, r)
                      ELSE r)
        /\ UNCHANGED <<variant, advancedAvailable, events, clicked, lastCall, user,
                       selectedLocation, api, hook, view>>

ViewLocation ==
    \E i \in 1..Len(locations) :
        LET loc == locations[i]
        IN  /\ ~crashed /\ ~locLoading /\ locError = NoError /\ view.pc = "idle"
            /\ selectedLocation' = loc.id
            /\ view' = IF viewable(loc)
                       THEN [NoView EXCEPT !.pc = "scheduled", !.attempt = 1,
                                           !.lat = parseFloat(loc.lat),
                                           !.lng = parseFloat(loc.lng)]
                       ELSE NoView
            /\ commit(IF selectedLocation # loc.id
                      THEN render(hook.map, ms, locations, initTimers)
                      ELSE norender(ms, initTimers))
            /\ UNCHANGED <<variant, advancedAvailable, events, clicked, lastCall, storeVars,
                           api, hook, dialog>>

\* handleEditLocation: the card's location becomes the selected one and an
\* alert is shown; Dashboard's form state is out of its reach.
handleEditLocation(d, loc) == [dialog |-> d, selectedLocation |-> loc.id]

EditLocation ==
    \E i \in 1..Len(locations) :
        LET e == handleEditLocation(dialog, locations[i])
        IN  /\ ~crashed /\ ~locLoading /\ locError = NoError
            /\ selectedLocation' = e.selectedLocation
            /\ dialog' = e.dialog
            /\ commit(IF selectedLocation # e.selectedLocation
                      THEN render(hook.map, ms, locations, initTimers)
                      ELSE norender(ms, initTimers))
            /\ UNCHANGED <<variant, advancedAvailable, events, clicked, lastCall, storeVars,
                           api, hook, view>>

ViewAttempt ==
    LET a == attemptMapCenter(view, hook.list, ms)
    IN  /\ view.pc = "scheduled"
        /\ ms' = a.ms
        /\ view' = a.view
        /\ lastCall' = [op |-> "centerMap", ret |-> a.ret, threw |-> a.threw]
        /\ UNCHANGED <<variant, advancedAvailable, events, clicked, storeVars, selectedLocation,
                       api, hook, initTimers, crashed, dialog>>

\* handleDeleteLocation after the confirmation was accepted. The 500 ms
\* showAllMarkers that follows a success goes through the list's hook.
DeleteLocation ==
    \E i \in 1..Len(locations), ok \in BOOLEAN :
        /\ ~crashed /\ ~locLoading /\ locError = NoError /\ awaited < MaxAwaited
        /\ deleteLocation(locations[i].id, ok)
        /\ commit(norender(ms, initTimers))
        /\ UNCHANGED <<variant, advancedAvailable, events, clicked, lastCall, user, lastResp,
                       selectedLocation, api, hook, dialog, view>>

NoLast == [kind |-> "none", ok |-> FALSE]

\* The remote collection holds what earlier sessions left there.
Seeded ==
    [i \in Ids |-> IF i = 1
                   THEN addLocationDoc([name |-> "HQ", lat |-> Num(40), lng |-> Num(-75)],
                                       "u1", 1, 0)
                   ELSE NoRec]

\* What a consumer of the context passes to updateLocation for a listed
\* record: a new name and new coordinates.
Moves == {[name |-> "A", lat |-> Num(10), lng |-> Num(20)]}

\* A consumer calls the context's updateLocation for a listed record.
CkUpdateLocation ==
    \E i \in 1..Len(locations), d \in Moves, ok \in BOOLEAN :
        /\ ~crashed /\ user # NoUser /\ awaited < MaxAwaited
        /\ updateLocation(locations[i].id, d, ok)
        /\ commit(IF locError # NoError
                  THEN render(hook.map, ms, locations, initTimers)
                  ELSE norender(ms, initTimers))
        /\ UNCHANGED <<variant, advancedAvailable, events, clicked, lastCall, user,
                       lastResp, selectedLocation, api, hook, dialog, view>>

\* The user clicks the marker of id: the listener hands its location to the
\* handler MapComponent registered, which logs it and calls
\* setSelectedLocation.
CkMarkerClick ==
    \E id \in Ids :
        LET location == markerClick(ms, id)
        IN  /\ ~crashed /\ has(ms, id) /\ ms.markers[id].onMap
            /\ ms.onMarkerClick
            /\ clicked' = location
            /\ selectedLocation' = location.id
            /\ commit(IF selectedLocation # location.id
                      THEN render(hook.map, ms, locations, initTimers)
                      ELSE norender(ms, initTimers))
            /\ UNCHANGED <<variant, advancedAvailable, events, lastCall, storeVars,
                           api, hook, dialog, view>>

InitStoreVars ==
    /\ user = NoUser
    /\ remote = Seeded
    /\ nextId = 2
    /\ clock = 0
    /\ locations = <<>>
    /\ locLoading = FALSE
    /\ locError = NoError
    /\ inflight = [sl \in Slots |-> NoResp]
    /\ lastResp = NoLast

InitAppVars ==
    /\ selectedLocation = 0
    /\ api = "idle"
    /\ hook = [c \in Components |-> NoHook]
    /\ initTimers = 0
    /\ crashed = FALSE
    /\ dialog = NoDialog
    /\ view = NoView

InitSurface ==
    /\ variant \in {"basic", "enhanced"}
    /\ advancedAvailable \in BOOLEAN
    /\ ms = MapsServiceInit
    /\ lastCall = NoCall
    /\ events = NoEvents
    /\ clicked = NoLocation
    /\ InitStoreVars
    /\ InitAppVars

NextSurface ==
    \/ SInitMap
    \/ SCenterMap
    \/ SAddTemporaryMarker
    \/ SAddLocationMarker
    \/ SRemoveLocationMarker
    \/ SShowAllMarkers
    \/ SSearchPlace
    \/ SPlaceSelect

SpecSurface == InitSurface /\ [][NextSurface]_vars

\* The search widget and its handler registration, with the map coming up
\* at any time.
NextWidget ==
    \/ SInitMap
    \/ WRegister
    \/ WSelect
    \/ WFetched

SpecWidget == InitSurface /\ [][NextWidget]_vars

InitStore ==
    /\ variant = "enhanced"
    /\ advancedAvailable = TRUE
    /\ ms = MapsServiceInit
    /\ lastCall = NoCall
    /\ events = NoEvents
    /\ clicked = NoLocation
    /\ InitStoreVars
    /\ InitAppVars

NextStore ==
    \/ StSignIn
    \/ StSignOut
    \/ StAddLocation
    \/ StUpdateLocation
    \/ StDeleteLocation
    \/ StResume

SpecStore == InitStore /\ [][NextStore]_vars

Init ==
    /\ variant \in {"basic", "enhanced"}
    /\ advancedAvailable \in BOOLEAN
    /\ ms = MapsServiceInit
    /\ lastCall = NoCall
    /\ events = NoEvents
    /\ clicked = NoLocation
    /\ InitStoreVars
    /\ InitAppVars

\* MapComponent under a store whose records a consumer of the context
\* updates, with clicks on the markers.
NextClick ==
    \/ SignIn
    \/ ScriptLoaded
    \/ InitTimerFires
    \/ Resume
    \/ CkUpdateLocation
    \/ CkMarkerClick

SpecClick == Init /\ [][NextClick]_vars

Next ==
    \/ SignIn
    \/ ScriptLoaded
    \/ ScriptFailed
    \/ InitTimerFires
    \/ OpenAdd
    \/ PlaceSelected
    \/ CloseForm
    \/ Submit
    \/ Resume
    \/ ViewLocation
    \/ EditLocation
    \/ ViewAttempt
    \/ DeleteLocation

Spec == Init /\ [][Next]_vars

\* The view chain's timers fire.
FairSpec == Spec /\ WF_vars(ViewAttempt)

\* ------------------------------------------------------------------ claims

\* The range the specification gives for coordinates.
InRange(lat, lng) ==
    /\ lat.t = "num" /\ lng.t = "num"
    /\ lat.v >= -90 /\ lat.v <= 90 /\ lng.v >= -180 /\ lng.v <= 180

registryIds(s) == {i \in Ids : has(s, i)}
listIds(locs) == {locs[k].id : k \in 1..Len(locs)}

\* C1: after every reconciliation that follows a change of the list, the ids
\* of the marker registry are the ids of the listed locations.
C1_RegistryMatchesList ==
    [][(locations' # locations /\ hook'.map.mapInitialized /\ ~crashed')
         => registryIds(ms') = listIds(locations')]_vars

\* C2: a create, update or delete call leaves the snapshot alone when it
\* starts; when its remote call failed, the continuation leaves the snapshot
\* as it was and the caller gets the error.
C2_SnapshotAfterSuccess ==
    [][/\ (\E sl \in Slots : /\ inflight[sl].kind = "none"
                             /\ inflight'[sl].kind \in {"add", "update", "delete"})
            => locations' = locations
       /\ \A sl \in Slots :
            (/\ inflight[sl].kind \in {"add", "update", "delete"}
             /\ inflight'[sl].kind = "none"
             /\ ~inflight[sl].ok)
            => /\ locations' = locations
               /\ locError' # NoError
               /\ lastResp' = [kind |-> inflight[sl].kind, ok |-> FALSE]]_vars

\* A delete failed at the remote and the location is still in the snapshot.
C2_Witness ==
    /\ lastResp = [kind |-> "delete", ok |-> FALSE]
    /\ locError # NoError
    /\ Len(locations) > 0

\* C3: nothing reaches the remote store, in a request or as a document, with
\* an empty name or coordinates that are not numbers in range.
C3_OnlyValidPersisted ==
    /\ \A i \in Ids :
         remote[i].exists => remote[i].name # "" /\ InRange(remote[i].lat, remote[i].lng)
    /\ \A sl \in Slots :
         (inflight[sl].kind \in {"add", "update"} /\ inflight[sl].ok)
           => InRange(inflight[sl].rec.lat, inflight[sl].rec.lng)

\* C4: on an attached map, centerMap answers a pair that holds NaN or is out
\* of range with false, without throwing and without moving the view; it
\* answers a valid pair with true, centres on it, and sets the zoom whenever
\* one is given.
C4_SetCenterValidates ==
    ms.map.attached =>
      \A c \in CoordPairs, z \in ZoomArgs :
        LET r == centerMap(ms, c[1], c[2], z)
        IN  IF InRange(c[1], c[2])
            THEN /\ ~r.threw /\ r.ret
                 /\ r.ms.map.center = [lat |-> c[1].v, lng |-> c[2].v]
                 /\ z.given => r.ms.map.zoom = z.z
            ELSE ~r.threw /\ ~r.ret /\ r.ms.map = ms.map

\* C5: on an attached map, addLocationMarker and addTemporaryMarker called
\* with a pair that holds NaN or is out of range change nothing: no marker
\* is created or moved and the temporary marker stays as it is.
C5_MarkersValidate ==
    ms.map.attached =>
      \A c \in CoordPairs, i \in Ids :
        ~InRange(c[1], c[2]) =>
          LET a == addLocationMarker(ms, [id |-> i, lat |-> c[1], lng |-> c[2]])
              t == addTemporaryMarker(ms, c[1], c[2])
          IN  ~a.threw /\ a.ms = ms /\ ~t.threw /\ t.ms = ms

\* C6: at most one map instance is ever constructed.
C6_OneMapInstance == ms.mapsBuilt <= 1

\* C7: at most one temporary marker is attached to the map surface.
C7_OneTemporaryMarker == ms.tempsOnSurface <= 1

\* C8, as stated: a centerMap call leaves the registry, the registered
\* markers and the temporary marker as they were.
C8_SetCenterLeavesMarkers ==
    [][lastCall'.op = "centerMap"
         => /\ ms'.markers = ms.markers
            /\ ms'.tempMarker = ms.tempMarker
            /\ ms'.tempsOnSurface = ms.tempsOnSurface]_vars

\* C8, amended: a centerMap call leaves the registry and the registered
\* markers as they were; a call that does not return true leaves the
\* temporary marker as it was; after a call that returns true the temporary
\* marker is the one from before or one at the new centre.
C8_SetCenterLeavesRegistry ==
    [][lastCall'.op = "centerMap"
         => /\ ms'.markers = ms.markers
            /\ ~lastCall'.ret => /\ ms'.tempMarker = ms.tempMarker
                                 /\ ms'.tempsOnSurface = ms.tempsOnSurface
            /\ lastCall'.ret => \/ ms'.tempMarker = ms.tempMarker
                                \/ /\ ms'.tempMarker.kind # "none"
                                   /\ ms'.tempMarker.pos = ms'.map.center]_vars

\* A centerMap call was rejected while markers are registered and a temporary
\* marker is on the surface.
C8_Witness ==
    /\ lastCall = [op |-> "centerMap", ret |-> FALSE, threw |-> FALSE]
    /\ ms.map.attached
    /\ ms.tempMarker.kind # "none"
    /\ registryIds(ms) # {}

\* C9: the last attempt of a view chain, made while the map is attached,
\* succeeds: the centre is the location's position and the zoom is viewZoom.
C9_ViewCentres ==
    [][(view.pc = "scheduled" /\ view'.pc = "idle" /\ ms.map.attached)
         => /\ lastCall'.ret
            /\ ms'.map.center = [lat |-> view.lat.v, lng |-> view.lng.v]
            /\ ms'.map.zoom = viewZoom]_vars

\* C10: a view chain makes at most maxAttempts attempts; whichever hook
\* instance the attempt goes through, another one is scheduled only after a
\* failure, with the next attempt number, and none after a success; the
\* chain ends; the continuation of a store call starts no other call.
C10_BoundedRetry ==
    /\ [](view.attempt <= maxAttempts)
    /\ [](view.pc = "scheduled" =>
            \A c \in Components :
              LET a == attemptMapCenter(view, hook[c], ms)
              IN  /\ a.ret => a.view.pc = "idle"
                  /\ a.view.pc = "scheduled" =>
                       ~a.ret /\ a.view.attempt = view.attempt + 1)
    /\ [][(\E sl \in Slots : inflight[sl].kind # "none" /\ inflight'[sl].kind = "none")
            => \A t \in Slots : inflight'[t] \in {inflight[t], NoResp}]_vars
    /\ (view.pc = "scheduled") ~> (view.pc = "idle")

\* Two attempts have failed and the third is scheduled.
C10_Witness == view.pc = "scheduled" /\ view.attempt = maxAttempts

\* C11: when the store's delete of a confirmed card delete has succeeded, the
\* step that continues handleDeleteLocation leaves no marker of the deleted id
\* in the registry.
C11_DeleteRemovesMarker ==
    [][\A sl \in Slots :
          (inflight[sl].kind = "delete" /\ inflight[sl].ok
                /\ inflight'[sl].kind = "none")
              => ~has(ms', inflight[sl].id)]_vars

\* C12: when Save is pressed in a dialog that a search-widget selection
\* opened (its editingLocation was made from the place and has no id), the
\* store call that is issued is the create, never the update.
C12_SelectionSubmitCreates ==
    [][\A sl \in Slots :
          (/\ dialog.open /\ dialog.editing.exists /\ dialog.editing.id = 0
           /\ ~dialog.loading /\ dialog'.loading
           /\ inflight[sl].kind = "none" /\ inflight'[sl].kind # "none")
              => inflight'[sl].kind = "add"]_vars

\* C13: "edit" on any card that is shown leaves the dialog open in the
\* editing state for the location of that card.
C13_EditOpensDialog ==
    \A i \in 1..Len(locations) :
        (~crashed /\ ~locLoading /\ locError = NoError)
            => LET e == handleEditLocation(dialog, locations[i])
               IN  e.dialog.open /\ e.dialog.editing = locations[i]

\* C14: a dialog with a submit in flight closes only in the step that
\* consumes a successful create / update; a submit stopped by validation or
\* geocoding, and a store call that failed, leave the dialog open on the same
\* editingLocation with an error message.
C14_CloseOnlyOnSuccess ==
    /\ [](\A f \in FormInputs, geo \in GeoResults :
            (~crashed /\ dialog.open /\ ~dialog.loading)
                => LET o == handleSubmit(f, ms, geo)
                       d == submitted(dialog, o)
                   IN  /\ d.open /\ d.editing = dialog.editing
                       /\ ~o.save => d.error /\ ~d.loading)
    /\ [][/\ (dialog.open /\ dialog.loading /\ ~dialog'.open)
                => lastResp'.ok /\ lastResp'.kind \in {"add", "update"}
          /\ (dialog.loading /\ ~dialog'.loading /\ ~lastResp'.ok)
                => /\ dialog'.open /\ dialog'.error
                   /\ dialog'.editing = dialog.editing]_vars

\* A store call issued by Save has failed and the dialog is still open with
\* its error.
C14_Witness ==
    /\ dialog.open /\ dialog.error /\ ~dialog.loading
    /\ lastResp.kind \in {"add", "update"} /\ ~lastResp.ok

\* C15: whatever the order of session changes and list responses, every
\* record of the snapshot is owned by the user signed in now, and the snapshot
\* is empty while nobody is signed in.
C15_SnapshotOfCurrentUser ==
    /\ \A i \in 1..Len(locations) : locations[i].userId = user
    /\ user = NoUser => locations = <<>>

\* C16: the step that consumes the response of a successful update sets, in
\* the snapshot record of that id, every field of the response to the
\* response's value and keeps every other field; no other record, and not the
\* order or length of the snapshot, changes. With two updates of one record in
\* flight the record therefore ends with the fields of the response that
\* arrived last, whichever was sent last.
C16_LastResponseWins ==
    [][\A sl \in Slots :
          (inflight[sl].kind = "update" /\ inflight[sl].ok
                /\ inflight'[sl].kind = "none")
              => /\ Len(locations') = Len(locations)
                 /\ \A i \in 1..Len(locations) :
                        IF locations[i].id # inflight[sl].id
                        THEN locations'[i] = locations[i]
                        ELSE /\ DOMAIN locations'[i] = DOMAIN locations[i]
                             /\ \A f \in DOMAIN locations[i] :
                                    locations'[i][f] =
                                        IF f \in DOMAIN inflight[sl].rec
                                        THEN inflight[sl].rec[f]
                                        ELSE locations[i][f]]_vars

\* update(name "A") was sent before update(name "B"), both have been answered,
\* and the answer to "A" arrived last: the snapshot says "A", the store "B".
C16_Witness ==
    /\ awaited = 0 /\ lastResp.kind = "update" /\ lastResp.ok
    /\ \E i \in 1..Len(locations) :
          /\ locations[i].name = "A" /\ locations[i].updatedAt = 1
          /\ remote[locations[i].id].name = "B"
          /\ remote[locations[i].id].updatedAt = 2

\* C17: in the step where firebaseService.addLocation succeeds for a draft,
\* the record the call returns has the draft's name and coordinates, the id
\* the store assigned (an id of no record listed before), the caller as owner
\* and createdAt = updatedAt = the time of the call; a list after that step
\* holds exactly one record with that id, which is the returned record, and
\* every record listed before, unchanged, and nothing else.
C17_CreateThenList ==
    [][\A sl \in Slots :
          (inflight[sl].kind = "none" /\ inflight'[sl].kind = "add"
                /\ inflight'[sl].ok)
              => LET r == inflight'[sl].rec
                     before == getLocations(remote, user)
                     after == getLocations(remote', user)
                 IN  /\ \E d \in Drafts :
                            r.name = d.name /\ r.lat = d.lat /\ r.lng = d.lng
                     /\ r.id = nextId /\ r.userId = user
                     /\ \A j \in 1..Len(before) : before[j].id # r.id
                     /\ r.createdAt = clock' /\ r.updatedAt = clock'
                     /\ clock' > clock
                     /\ Cardinality({k \in 1..Len(after) : after[k].id = r.id}) = 1
                     /\ \A k \in 1..Len(after) : after[k].id = r.id => after[k] = r
                     /\ Len(after) = Len(before) + 1
                     /\ \A j \in 1..Len(before) :
                            \E k \in 1..Len(after) : after[k] = before[j]]_vars

\* A create has succeeded and been applied; the list holds the record that
\* was there before and the new one.
C17_Witness ==
    /\ lastResp.kind = "add" /\ lastResp.ok /\ user = "u1"
    /\ Len(getLocations(remote, user)) = 2
    /\ \E i \in 1..Len(locations) : locations[i].id = 2 /\ locations[i].createdAt > 0

\* C18: an update of an id the store knows overrides, in the stored document
\* and (when its response is consumed) in the snapshot record of that id, the
\* fields it was given and updatedAt, which becomes the time of the call, later
\* than the document's createdAt and previous updatedAt; id, owner and
\* createdAt of the record, and every other record, stay as they were. An
\* update of an id the store does not know fails: its response is an error,
\* and neither the store nor the snapshot changes, when it is issued or when
\* the error is consumed.
C18_UpdateMerges ==
    [][\A sl \in Slots :
          /\ (inflight[sl].kind = "none" /\ inflight'[sl].kind = "update")
                => LET r == inflight'[sl].rec
                       id == inflight'[sl].id
                   IN  /\ locations' = locations
                       /\ (id \notin Ids \/ ~remote[id].exists)
                            => ~inflight'[sl].ok /\ remote' = remote
                       /\ ~inflight'[sl].ok => remote' = remote
                       /\ inflight'[sl].ok
                            => /\ r.id = id /\ "updatedAt" \in DOMAIN r
                               /\ r.updatedAt = clock'
                               /\ r.updatedAt > remote[id].updatedAt
                               /\ r.updatedAt > remote[id].createdAt
                               /\ DOMAIN r \subseteq {"id", "updatedAt", "name", "lat", "lng"}
                               /\ \A f \in DOMAIN remote[id] :
                                      remote'[id][f] = IF f \in DOMAIN r THEN r[f]
                                                       ELSE remote[id][f]
                               /\ \A j \in Ids \ {id} : remote'[j] = remote[j]
          /\ (inflight[sl].kind = "update" /\ inflight'[sl].kind = "none")
                => LET r == inflight[sl].rec
                   IN  /\ remote' = remote
                       /\ ~inflight[sl].ok
                            => locations' = locations /\ locError' # NoError
                       /\ inflight[sl].ok
                            => /\ Len(locations') = Len(locations)
                               /\ \A i \in 1..Len(locations) :
                                      IF locations[i].id # inflight[sl].id
                                      THEN locations'[i] = locations[i]
                                      ELSE /\ "updatedAt" \in DOMAIN r
                                           /\ locations'[i] = spread(locations[i], r)
                                           /\ locations'[i].id = locations[i].id
                                           /\ locations'[i].userId = locations[i].userId
                                           /\ locations'[i].createdAt = locations[i].createdAt
                                           /\ locations'[i].updatedAt = r.updatedAt]_vars

\* An update has succeeded and been applied: the snapshot record carries the
\* new name and a refreshed updatedAt, and agrees with the stored document.
C18_Witness ==
    /\ lastResp.kind = "update" /\ lastResp.ok
    /\ \E i \in 1..Len(locations) :
          /\ locations[i].name = "B"
          /\ locations[i].updatedAt > locations[i].createdAt
          /\ locations[i] = remote[locations[i].id]

\* C19: addLocationMarker with coordinates in range, on a map that is there,
\* does not throw; for an id already registered it leaves the marker
\* registered under that id the same but for its position, which becomes the
\* given one, and leaves the registered ids as they were; for an id not
\* registered it registers exactly that id with a marker on the map at the
\* given coordinates; no other marker changes.
C19_UpsertMarker ==
    ms.map.attached =>
      \A c \in CoordPairs, i \in Ids :
        InRange(c[1], c[2]) =>
          LET a == addLocationMarker(ms, [id |-> i, lat |-> c[1], lng |-> c[2]])
          IN  /\ ~a.threw /\ a.ret
              /\ registryIds(a.ms) = registryIds(ms) \cup {i}
              /\ \A j \in Ids \ {i} : a.ms.markers[j] = ms.markers[j]
              /\ a.ms.markers[i].pos = ProviderLatLng(c[1], c[2])
              /\ a.ms.markers[i].onMap
              /\ has(ms, i) =>
                    a.ms.markers[i] = [ms.markers[i] EXCEPT !.pos = a.ms.markers[i].pos]

\* C20: removeLocationMarker of a registered id, whichever constructor made
\* the marker, returns true without throwing and leaves that id out of the
\* registry and every other marker as it was; of an id not registered it
\* returns false and leaves the service as it was.
C20_RemoveMarker ==
    \A i \in Ids :
        LET r == removeLocationMarker(ms, i)
        IN  IF has(ms, i)
            THEN /\ ~r.threw /\ r.ret
                 /\ ~has(r.ms, i)
                 /\ \A j \in Ids \ {i} : r.ms.markers[j] = ms.markers[j]
            ELSE ~r.threw /\ ~r.ret /\ r.ms = ms

\* C21: showAllMarkers never throws, whatever markers are registered, and
\* returns false when no registered marker yields a position.
C21_FitNeverThrows ==
    LET r == showAllMarkers(ms)
    IN  /\ ~r.threw
        /\ size(ms) = 0 => ~r.ret

\* C22: showAllMarkers with no marker registered returns false without
\* throwing and leaves the map (centre and zoom) and all the rest of the
\* service as they were.
C22_FitOverEmpty ==
    size(ms) = 0 =>
        LET r == showAllMarkers(ms)
        IN  ~r.threw /\ ~r.ret /\ r.ms = ms

\* showAllMarkers was just called on an attached map whose view had been
\* moved away from the configured default, with no marker registered.
C22_Witness ==
    /\ lastCall.op = "showAllMarkers" /\ ~lastCall.ret /\ ~lastCall.threw
    /\ size(ms) = 0 /\ ms.map.attached
    /\ ms.map.center # [lat |-> defaultLat, lng |-> defaultLng]

\* C23: with exactly one marker registered on an attached map, showAllMarkers
\* returns true and leaves the view centred on that marker's position at zoom
\* searchZoom.
C23_FitOverOne ==
    (ms.map.attached /\ size(ms) = 1) =>
        LET r == showAllMarkers(ms)
            i == CHOOSE j \in Ids : has(ms, j)
        IN  /\ ~r.threw /\ r.ret
            /\ r.ms.map.center = ms.markers[i].pos
            /\ r.ms.map.zoom = searchZoom

\* C24: a searchPlace call, whether it finds a result, finds none or finds no
\* geocoder, leaves the map (centre and zoom) and the temporary marker as
\* they were.
C24_LookupLeavesMap ==
    [][lastCall'.op = "searchPlace"
         => /\ ms'.map = ms.map
            /\ ms'.tempMarker = ms.tempMarker
            /\ ms'.tempsOnSurface = ms.tempsOnSurface]_vars

\* C24, amended: a searchPlace call never touches the marker registry or the
\* geocoder; one that fails (no geocoder, or no result) throws and leaves the
\* whole service, the map and the temporary marker included, as it was; one
\* that returns a result has put a temporary marker on the map at the centre
\* of the view it has moved to.
C24_LookupLeavesRegistry ==
    [][lastCall'.op = "searchPlace"
         => /\ ms'.markers = ms.markers
            /\ ms'.geocoder = ms.geocoder
            /\ ms'.mapsBuilt = ms.mapsBuilt
            /\ lastCall'.threw => ms' = ms
            /\ ~lastCall'.threw
                 => /\ lastCall'.ret /\ ms.geocoder
                    /\ ms'.tempMarker.kind # "none" /\ ms'.tempMarker.onMap
                    /\ ms'.tempMarker.pos = ms'.map.center]_vars

\* A searchPlace call has returned a result while location markers are
\* registered: the view and the temporary marker are at the result.
C24_Witness ==
    /\ lastCall = [op |-> "searchPlace", ret |-> TRUE, threw |-> FALSE]
    /\ registryIds(ms) # {}
    /\ ms.tempMarker.pos = [lat |-> 40, lng |-> -75]
    /\ ms.map.center = [lat |-> 40, lng |-> -75]

\* C25: whatever form the provider gives a location's lat / lng (numbers or
\* accessor functions), the coordinates that leave the service are numbers:
\* those of the result searchPlace returns, those of the placeData handed to
\* the place-selected handler when the listener gets that far, and those of
\* the form pre-fill Dashboard makes from that placeData.
C25_CoordinatesAreNumbers ==
    /\ \A found \in BOOLEAN, vp \in BOOLEAN :
          LET res == [found |-> found, lat |-> 40, lng |-> -75, viewport |-> vp]
          IN  ~searchPlace(ms, res).threw
                  => /\ typeofNumber(searchResult(res).lat)
                     /\ typeofNumber(searchResult(res).lng)
    /\ \A c \in PlaceCoordPairs, vp \in BOOLEAN :
          LET place == [ok |-> TRUE, lat |-> c[1], lng |-> c[2], viewport |-> vp]
              fill == handlePlaceSelected(NoDialog, placeData(place)).editing
          IN  ~placeSelect(ms, place).threw
                  => /\ typeofNumber(placeData(place).lat)
                     /\ typeofNumber(placeData(place).lng)
                     /\ typeofNumber(fill.lat) /\ typeofNumber(fill.lng)

\* C26: for every selection event a handler is invoked at most once, never
\* while the event's fetchFields is pending, and never when the fetch failed
\* or gave no location; the handler invoked is the one registered last at the
\* moment of the invocation.
C26_CallbackOncePerSelection ==
    /\ [](\A e \in 1..MaxEvents :
            /\ events[e].calls <= 1
            /\ events[e].pc \in {"none", "fetching", "failed"} => events[e].calls = 0
            /\ events[e].fetch # "ok" => events[e].calls = 0
            /\ events[e].calls = 1 => events[e].pc = "done" /\ events[e].by # 0)
    /\ [][\A e \in 1..MaxEvents :
            events'[e].calls > events[e].calls
                => /\ events[e].pc = "fetching" /\ events[e].fetch = "ok"
                   /\ events'[e].by = ms.onPlaceSelected
                   /\ \A d \in 1..MaxEvents : events'[d].seen <= events'[e].by]_vars

\* A selection was reported to the handler registered while its fetch was
\* pending, not to the one registered when the event happened.
C26_Witness ==
    \E e \in 1..MaxEvents :
        /\ events[e].pc = "done" /\ events[e].calls = 1
        /\ events[e].seen = 1 /\ events[e].by = 2

\* C27: once the provider's script has failed to load, the map area shows
\* the error message and not the loading indicator.
C27_FailedLoadShowsError ==
    api = "failed" => mapArea(hook.map) = "error"

\* What the code does instead: after a failed load the map area is the
\* loading box in every reachable state.
C27_FailedLoadKeepsLoading ==
    api = "failed" => mapArea(hook.map) = "loading"

C29_LoadAndCreateOverlap ==
    [][\A sl \in Slots :
          (inflight[sl].kind # "none" /\ inflight[sl].ok
                /\ inflight'[sl].kind = "none")
              => /\ (/\ inflight[sl].kind = "list"
                     /\ Len(inflight[sl].list) > 0
                     /\ \A k \in 1..Len(inflight[sl].list) :
                            inflight[sl].list[k].userId = user)
                       => \A j \in 1..Len(locations) :
                            (/\ locations[j].userId = user
                             /\ locations[j].id \in Ids
                             /\ remote[locations[j].id] = locations[j])
                               => \E k \in 1..Len(locations') :
                                      locations'[k].id = locations[j].id
                 /\ (inflight[sl].kind = "add" /\ inflight[sl].rec.userId = user)
                       => Cardinality({k \in 1..Len(locations') :
                              locations'[k].id = inflight[sl].rec.id}) = 1]_vars

\* C30: when the snapshot record of an id has been updated and the marker of
\* that id stands where the updated record says, a click on the marker hands
\* the handler the record as the snapshot holds it now.
C30_ClickDeliversCurrent ==
    [][\A j \in 1..Len(locations) :
          (/\ clicked' # clicked
           /\ clicked'.id = locations[j].id
           /\ locations[j].updatedAt > locations[j].createdAt
           /\ ms.markers[locations[j].id].pos =
                  ProviderLatLng(locations[j].lat, locations[j].lng))
              => clicked' = heldBy(locations[j])]_vars

====
